---- MODULE Spec2Model ----
(***************************************************************************)
(* sqloo: the query construction of the sqlite and the postgres adapter.   *)
(*                                                                         *)
(* A JavaScript string is a sequence of atoms.  An atom is a piece of text *)
(* that no operation of the adapters splits: a keyword literal of a        *)
(* statement template ("INSERT INTO "), an identifier ("title"), or one    *)
(* character ("?", "$", a decimal digit).  String concatenation is \o.     *)
(* A mapping (a plain object) is the sequence of its <<key, value>> pairs  *)
(* in enumeration order.                                                   *)
(***************************************************************************)
EXTENDS Integers, Sequences, FiniteSets, TLC

(* adapter: the dialect of the database object; pc: the position of the    *)
(* operation in progress; call: its arguments; query: the statement it     *)
(* built; sent: the statement handed to the driver; reply: the driver's    *)
(* answer; ret: what the caller receives; depth: frames of table(name)     *)
(* methods on the stack; awaits: suspension points the operation has       *)
(* passed; store: the rows of table contents; engine: whether the driver   *)
(* answers arbitrarily ("any") or from the table ("table").                *)
VARIABLES adapter, pc, call, query, sent, reply, ret, depth, awaits, store,
          engine

vars ==
  <<adapter, pc, call, query, sent, reply, ret, depth, awaits, store, engine>>

(* ------------------------------ bounds -------------------------------- *)
MaxVars == 2
MaxRows == 5
MaxResultRows == 2
MaxAffected == 2
MaxStack == 3
MaxMixedRows == 2

Adapters == {"sqlite", "postgres"}
Vals == {1, 2}
Cols == {"id", "title"}
Tables == {"contents"}

(* literal fragments a tagged template can carry *)
Frags == { <<>>, <<"a">>, <<"?">>, <<"1">>, <<"$", "1">>, <<"a", "$">> }
OpFrags == { <<"a">>, <<"?">> }

(* ------------------------- JavaScript helpers ------------------------- *)
DigitAtom == <<"0", "1", "2", "3", "4", "5", "6", "7", "8", "9">>

RECURSIVE NumberToString(_)
NumberToString(n) ==
  IF n < 10 THEN <<DigitAtom[n + 1]>>
  ELSE NumberToString(n \div 10) \o <<DigitAtom[(n % 10) + 1]>>

ObjectKeys(m) == [i \in 1..Len(m) |-> m[i][1]]
ObjectValues(m) == [i \in 1..Len(m) |-> m[i][2]]

RECURSIVE ArrayJoin(_, _)
ArrayJoin(parts, sep) ==
  IF Len(parts) = 0 THEN <<>>
  ELSE IF Len(parts) = 1 THEN parts[1]
  ELSE parts[1] \o sep \o ArrayJoin(Tail(parts), sep)

(* ---------------------------- parseTemplate --------------------------- *)
RECURSIVE sqliteTemplateLoop(_, _, _, _, _)
sqliteTemplateLoop(strings, tvars, i, sql, values) ==
  IF i < Len(tvars)
  THEN sqliteTemplateLoop(strings, tvars, i + 1,
                          sql \o <<"?">> \o strings[i + 2],
                          Append(values, tvars[i + 1]))
  ELSE [sql |-> sql, values |-> values]

sqliteParseTemplate_dropsOrder(strings, tvars) ==
  LET r == sqliteTemplateLoop(strings, tvars, 0, strings[1], <<>>)
  IN [sql |-> r.sql,
      values |-> [k \in 1..Len(r.values) |-> r.values[Len(r.values) + 1 - k]]]

sqliteParseTemplate(strings, tvars) ==
  sqliteTemplateLoop(strings, tvars, 0, strings[1], <<>>)

RECURSIVE pgTemplateLoop(_, _, _, _, _)
pgTemplateLoop(strings, tvars, i, sql, values) ==
  IF i < Len(tvars)
  THEN pgTemplateLoop(strings, tvars, i + 1,
                      sql \o <<"$">> \o NumberToString(i + 1) \o strings[i + 2],
                      Append(values, tvars[i + 1]))
  ELSE [sql |-> sql, values |-> values]

RECURSIVE pgTemplateLoop_zeroBased(_, _, _, _, _)
pgTemplateLoop_zeroBased(strings, tvars, i, sql, values) ==
  IF i < Len(tvars)
  THEN pgTemplateLoop_zeroBased(strings, tvars, i + 1,
                      sql \o <<"$">> \o NumberToString(i) \o strings[i + 2],
                      Append(values, tvars[i + 1]))
  ELSE [sql |-> sql, values |-> values]

pgParseTemplate_zeroBased(strings, tvars) ==
  pgTemplateLoop_zeroBased(strings, tvars, 0, strings[1], <<>>)

pgParseTemplate(strings, tvars) ==
  pgTemplateLoop(strings, tvars, 0, strings[1], <<>>)

(* ------------------------- statement builders ------------------------- *)
(* keys.join(", ") over identifiers *)
JoinKeys(keys) == ArrayJoin([j \in 1..Len(keys) |-> <<keys[j]>>], <<", ">>)

(* data.reduce((acc, row) => acc.concat(Object.values(row)), []) *)
RECURSIVE ReduceConcatValues(_)
ReduceConcatValues(data) ==
  IF Len(data) = 0 THEN <<>>
  ELSE ObjectValues(data[1]) \o ReduceConcatValues(Tail(data))

sqliteInsertMany_oneGroup(table, data) ==
  LET keys == ObjectKeys(data[1])
      placeholders ==
        <<"(">> \o ArrayJoin([j \in 1..Len(keys) |-> <<"?">>], <<", ">>)
                \o <<")">>
  IN [sql |-> <<"INSERT INTO ", table, " (">> \o JoinKeys(keys)
                \o <<") VALUES ">> \o placeholders,
      values |-> ReduceConcatValues(data)]

sqliteInsertMany(table, data) ==
  LET keys == ObjectKeys(data[1])
      placeholders ==
        ArrayJoin([r \in 1..Len(data) |->
                     <<"(">> \o ArrayJoin([j \in 1..Len(keys) |-> <<"?">>], <<", ">>)
                             \o <<")">>],
                  <<", ">>)
  IN [sql |-> <<"INSERT INTO ", table, " (">> \o JoinKeys(keys)
                \o <<") VALUES ">> \o placeholders,
      values |-> ReduceConcatValues(data)]

sqliteInsertOne(table, data) ==
  LET keys == ObjectKeys(data)
      placeholders == ArrayJoin([j \in 1..Len(keys) |-> <<"?">>], <<", ">>)
  IN [sql |-> <<"INSERT INTO ", table, " (">> \o JoinKeys(keys)
                \o <<") VALUES (">> \o placeholders \o <<")">>,
      values |-> ObjectValues(data)]

pgInsertMany_restartsPerRow(table, data) ==
  LET keys == ObjectKeys(data[1])
      placeholders ==
        ArrayJoin([r \in 1..Len(data) |->
                     <<"(">> \o ArrayJoin([j \in 1..Len(keys) |->
                                             <<"$">> \o NumberToString(j)],
                                          <<", ">>)
                             \o <<")">>],
                  <<", ">>)
  IN [sql |-> <<"INSERT INTO ", table, " (">> \o JoinKeys(keys)
                \o <<") VALUES ">> \o placeholders,
      values |-> ReduceConcatValues(data)]

pgInsertMany(table, data) ==
  LET keys == ObjectKeys(data[1])
      placeholders ==
        ArrayJoin([r \in 1..Len(data) |->
                     <<"(">> \o ArrayJoin([j \in 1..Len(keys) |->
                                             <<"$">> \o NumberToString(
                                               (r - 1) * Len(keys) + (j - 1) + 1)],
                                          <<", ">>)
                             \o <<")">>],
                  <<", ">>)
  IN [sql |-> <<"INSERT INTO ", table, " (">> \o JoinKeys(keys)
                \o <<") VALUES ">> \o placeholders,
      values |-> ReduceConcatValues(data)]

pgInsertOne_valuesReversed(table, data) ==
  LET keys == ObjectKeys(data)
      placeholders ==
        ArrayJoin([j \in 1..Len(keys) |-> <<"$">> \o NumberToString(j)], <<", ">>)
  IN [sql |-> <<"INSERT INTO ", table, " (">> \o JoinKeys(keys)
                \o <<") VALUES (">> \o placeholders \o <<")">>,
      values |-> [j \in 1..Len(data) |-> ObjectValues(data)[Len(data) + 1 - j]]]

pgInsertOne(table, data) ==
  LET keys == ObjectKeys(data)
      placeholders ==
        ArrayJoin([j \in 1..Len(keys) |-> <<"$">> \o NumberToString((j - 1) + 1)],
                  <<", ">>)
  IN [sql |-> <<"INSERT INTO ", table, " (">> \o JoinKeys(keys)
                \o <<") VALUES (">> \o placeholders \o <<")">>,
      values |-> ObjectValues(data)]

(* get and list of the sqlite adapter build the same text *)
sqliteSelect(table, where) ==
  LET keys == ObjectKeys(where)
      whereClause ==
        ArrayJoin([j \in 1..Len(keys) |-> <<keys[j], " = ", "?">>], <<" and ">>)
  IN [sql |-> <<"select * from ", table, " where ">> \o whereClause,
      values |-> ObjectValues(where)]

sqliteGetStatement(table, where) == sqliteSelect(table, where)
sqliteListStatement(table, where) == sqliteSelect(table, where)

pgSelect_commaJoined(table, where) ==
  LET keys == ObjectKeys(where)
      whereClause ==
        ArrayJoin([j \in 1..Len(keys) |->
                     <<keys[j], " = ", "$">> \o NumberToString(j)],
                  <<", ">>)
  IN [sql |-> <<"SELECT * FROM ", table, " WHERE ">> \o whereClause,
      values |-> ObjectValues(where)]

pgSelect(table, where) ==
  LET keys == ObjectKeys(where)
      whereClause ==
        ArrayJoin([j \in 1..Len(keys) |->
                     <<keys[j], " = ", "$">> \o NumberToString((j - 1) + 1)],
                  <<" AND ">>)
  IN [sql |-> <<"SELECT * FROM ", table, " WHERE ">> \o whereClause,
      values |-> ObjectValues(where)]

pgGetStatement(table, where) == pgSelect(table, where)
pgListStatement(table, where) == pgSelect(table, where)

sqliteUpdateStatement_whereValuesFirst(table, where, data) ==
  LET keys == ObjectKeys(data)
      values == ObjectValues(data)
      setClause ==
        ArrayJoin([j \in 1..Len(keys) |-> <<keys[j], " = ", "?">>], <<", ">>)
      whereKeys == ObjectKeys(where)
      whereValues == ObjectValues(where)
      whereClause ==
        ArrayJoin([j \in 1..Len(whereKeys) |-> <<whereKeys[j], " = ", "?">>],
                  <<" AND ">>)
  IN [sql |-> <<"UPDATE ", table, " SET ">> \o setClause
                \o <<" WHERE ">> \o whereClause,
      values |-> whereValues \o values]

sqliteUpdateStatement(table, where, data) ==
  LET keys == ObjectKeys(data)
      values == ObjectValues(data)
      setClause ==
        ArrayJoin([j \in 1..Len(keys) |-> <<keys[j], " = ", "?">>], <<", ">>)
      whereKeys == ObjectKeys(where)
      whereValues == ObjectValues(where)
      whereClause ==
        ArrayJoin([j \in 1..Len(whereKeys) |-> <<whereKeys[j], " = ", "?">>],
                  <<" AND ">>)
  IN [sql |-> <<"UPDATE ", table, " SET ">> \o setClause
                \o <<" WHERE ">> \o whereClause,
      values |-> values \o whereValues]

pgUpdateStatement_whereRestarts(table, where, data) ==
  LET keys == ObjectKeys(data)
      values == ObjectValues(data)
      setClause ==
        ArrayJoin([j \in 1..Len(keys) |->
                     <<keys[j], " = ", "$">> \o NumberToString(j)],
                  <<", ">>)
      whereKeys == ObjectKeys(where)
      whereValues == ObjectValues(where)
      whereClause ==
        ArrayJoin([j \in 1..Len(whereKeys) |->
                     <<whereKeys[j], " = ", "$">> \o NumberToString(j)],
                  <<" AND ">>)
  IN [sql |-> <<"UPDATE ", table, " SET ">> \o setClause
                \o <<" WHERE ">> \o whereClause,
      values |-> values \o whereValues]

pgUpdateStatement(table, where, data) ==
  LET keys == ObjectKeys(data)
      values == ObjectValues(data)
      setClause ==
        ArrayJoin([j \in 1..Len(keys) |->
                     <<keys[j], " = ", "$">> \o NumberToString((j - 1) + 1)],
                  <<", ">>)
      whereKeys == ObjectKeys(where)
      whereValues == ObjectValues(where)
      whereClause ==
        ArrayJoin([j \in 1..Len(whereKeys) |->
                     <<whereKeys[j], " = ", "$">>
                       \o NumberToString((j - 1) + 1 + Len(values))],
                  <<" AND ">>)
  IN [sql |-> <<"UPDATE ", table, " SET ">> \o setClause
                \o <<" WHERE ">> \o whereClause,
      values |-> values \o whereValues]

(* ------------------------------ records ------------------------------- *)
NoCall ==
  [op |-> "none", via |-> "direct", table |-> "", isArray |-> FALSE,
   data |-> <<>>, rows |-> <<>>, where |-> <<>>, strings |-> <<>>,
   tvars |-> <<>>]

NoStmt == [set |-> FALSE, sql |-> <<>>, values |-> <<>>]
Stmt(s) == [set |-> TRUE, sql |-> s.sql, values |-> s.values]

NoReply == [set |-> FALSE, ok |-> FALSE, rows |-> <<>>, rowCount |-> 0]

Ret(tag, rows, num) == [tag |-> tag, rows |-> rows, num |-> num]
Pending == Ret("pending", <<>>, 0)

(* tagged-template arguments: one more fragment than values *)
TemplateArgs(frags, n) ==
  { [strings |-> s, tvars |-> v] :
      s \in [1..(n + 1) -> frags], v \in [1..n -> Vals] }

(* ------------------ specification of parseTemplate alone -------------- *)
InitTemplate ==
  /\ adapter \in Adapters
  /\ pc = "idle"
  /\ call = NoCall
  /\ query = NoStmt
  /\ sent = NoStmt
  /\ reply = NoReply
  /\ ret = Pending
  /\ depth = 0
  /\ awaits = 0
  /\ store = <<>>
  /\ engine = "any"

sqliteParse ==
  /\ adapter = "sqlite"
  /\ pc = "idle"
  /\ \E n \in 0..MaxVars : \E a \in TemplateArgs(Frags, n) :
       /\ call' = [NoCall EXCEPT !.op = "parseTemplate",
                                 !.strings = a.strings, !.tvars = a.tvars]
       /\ query' = Stmt(sqliteParseTemplate(a.strings, a.tvars))
  /\ pc' = "done"
  /\ UNCHANGED <<adapter, sent, reply, ret, depth, awaits, store, engine>>

pgParse ==
  /\ adapter = "postgres"
  /\ pc = "idle"
  /\ \E n \in 0..MaxVars : \E a \in TemplateArgs(Frags, n) :
       /\ call' = [NoCall EXCEPT !.op = "parseTemplate",
                                 !.strings = a.strings, !.tvars = a.tvars]
       /\ query' = Stmt(pgParseTemplate(a.strings, a.tvars))
  /\ pc' = "done"
  /\ UNCHANGED <<adapter, sent, reply, ret, depth, awaits, store, engine>>

(* the caller consumes the result; every per-call value is discarded *)
Discard ==
  /\ pc = "done"
  /\ pc' = "idle"
  /\ call' = NoCall
  /\ query' = NoStmt
  /\ sent' = NoStmt
  /\ reply' = NoReply
  /\ ret' = Pending
  /\ depth' = 0
  /\ awaits' = 0
  /\ UNCHANGED <<adapter, store, engine>>

NextTemplate == sqliteParse \/ pgParse \/ Discard

SpecTemplate == InitTemplate /\ [][NextTemplate]_vars

(* ------------------------- inputs of the calls ------------------------ *)
KeySeqs ==
  { ks \in UNION { [1..n -> Cols] : n \in 0..Cardinality(Cols) } :
      \A i, j \in 1..Len(ks) : ks[i] = ks[j] => i = j }

MappingsOver(ks) ==
  { [i \in 1..Len(ks) |-> <<ks[i], v[i]>>] : v \in [1..Len(ks) -> Vals] }

Mappings == UNION { MappingsOver(ks) : ks \in KeySeqs }

(* n rows over the keys ks, every cell holding a different value *)
RegularRows(ks, n) ==
  [r \in 1..n |-> [j \in 1..Len(ks) |-> <<ks[j], (r - 1) * Len(ks) + j>>]]

(* arrays of rows: up to MaxRows rows of one shape, and short arrays of any *)
(* rows, whose key sets and key orders may differ                           *)
RowArrays ==
  { RegularRows(ks, n) : n \in 0..MaxRows, ks \in KeySeqs }
    \cup UNION { [1..n -> Mappings] : n \in 0..MaxMixedRows }

InsertInputs ==
  { [table |-> t, isArray |-> FALSE, data |-> d, rows |-> <<>>] :
      t \in Tables, d \in Mappings }
    \cup { [table |-> t, isArray |-> TRUE, data |-> <<>>, rows |-> rs] :
             t \in Tables, rs \in RowArrays }

WhereInputs == { [table |-> t, where |-> w] : t \in Tables, w \in Mappings }

UpdateInputs ==
  { [table |-> t, where |-> w, data |-> d] :
      t \in Tables, w \in Mappings, d \in Mappings }

TemplateInputs == UNION { TemplateArgs(OpFrags, n) : n \in 0..MaxVars }

(* --------------------- reading a generated statement ------------------ *)
IsDigit(a) == \E d \in 1..10 : DigitAtom[d] = a

DigitValue(a) == (CHOOSE d \in 1..10 : DigitAtom[d] = a) - 1

(* positional placeholders of a text: its ? atoms *)
CountPositional(sql) == Cardinality({i \in 1..Len(sql) : sql[i] = "?"})

(* numbered placeholders of a text: a $ followed by a digit *)
NumberedAt(sql) ==
  {i \in 1..Len(sql) : sql[i] = "$" /\ i < Len(sql) /\ IsDigit(sql[i + 1])}

CountNumbered(sql) == Cardinality(NumberedAt(sql))

PlaceholderCount(ad, sql) ==
  IF ad = "sqlite" THEN CountPositional(sql) ELSE CountNumbered(sql)

RECURSIVE SumOver(_, _, _)
SumOver(f, lo, hi) == IF lo > hi THEN 0 ELSE f[lo] + SumOver(f, lo + 1, hi)

FragmentPlaceholders(ad, strings) ==
  SumOver([j \in 1..Len(strings) |-> PlaceholderCount(ad, strings[j])],
          1, Len(strings))

(* the value of the decimal numeral s[lo..hi] *)
RECURSIVE Numeral(_, _, _)
Numeral(s, lo, hi) ==
  IF lo > hi THEN 0 ELSE Numeral(s, lo, hi - 1) * 10 + DigitValue(s[hi])

NumeralWidth(n) == IF n < 10 THEN 1 ELSE IF n < 100 THEN 2 ELSE 3

(* width of the placeholder of 0-based position i *)
PlaceholderWidth(ad, i) == IF ad = "sqlite" THEN 1 ELSE 1 + NumeralWidth(i + 1)

(* s[at+1 ..] starts with the placeholder of 0-based position i *)
PlaceholderIsAt(ad, s, at, i) ==
  /\ at + PlaceholderWidth(ad, i) <= Len(s)
  /\ IF ad = "sqlite"
     THEN s[at + 1] = "?"
     ELSE /\ s[at + 1] = "$"
          /\ \A k \in (at + 2)..(at + PlaceholderWidth(ad, i)) : IsDigit(s[k])
          /\ Numeral(s, at + 2, at + PlaceholderWidth(ad, i)) = i + 1

(* first index of atom a in s, 0 when absent *)
IndexOf(s, a) ==
  IF \E i \in 1..Len(s) : s[i] = a
  THEN CHOOSE i \in 1..Len(s) : s[i] = a /\ \A k \in 1..(i - 1) : s[k] # a
  ELSE 0

(* the pieces of s between the atoms sep; no piece for an empty s *)
RECURSIVE SplitOn(_, _)
SplitOn(s, sep) ==
  IF Len(s) = 0 THEN <<>>
  ELSE LET i == IndexOf(s, sep)
       IN IF i = 0 THEN <<s>>
          ELSE IF i = Len(s) THEN <<SubSeq(s, 1, i - 1), <<>> >>
          ELSE <<SubSeq(s, 1, i - 1)>> \o SplitOn(SubSeq(s, i + 1, Len(s)), sep)

Malformed == << <<"malformed">> >>

(* the texts inside the parenthesised groups "(..), (..), .." of s *)
RECURSIVE GroupsOf(_)
GroupsOf(s) ==
  IF Len(s) = 0 THEN <<>>
  ELSE IF s[1] # "(" THEN Malformed
  ELSE LET c == IndexOf(s, ")")
       IN IF c = 0 THEN Malformed
          ELSE IF c = Len(s) THEN <<SubSeq(s, 2, c - 1)>>
          ELSE IF s[c + 1] # ", " \/ c + 1 = Len(s) THEN Malformed
          ELSE <<SubSeq(s, 2, c - 1)>> \o GroupsOf(SubSeq(s, c + 2, Len(s)))

(* ------------------------------ the driver ---------------------------- *)
(* The driver is an external collaborator: it answers a statement with a   *)
(* failure, with rows, or with a count of changed rows.                    *)
DriverRows == { << <<"id", v>>, <<"title", 3 - v>> >> : v \in Vals }

ResultSets == UNION { [1..n -> DriverRows] : n \in 0..MaxResultRows }

Failure == [set |-> TRUE, ok |-> FALSE, rows |-> <<>>, rowCount |-> 0]

Replies ==
  {Failure}
    \cup { [set |-> TRUE, ok |-> TRUE, rows |-> rs, rowCount |-> Len(rs)] :
             rs \in ResultSets }
    \cup { [set |-> TRUE, ok |-> TRUE, rows |-> <<>>, rowCount |-> n] :
             n \in 1..MaxAffected }

Undefined == Ret("undefined", <<>>, 0)
DriverError == Ret("DriverError", <<>>, 0)
TypeError == Ret("TypeError", <<>>, 0)
RangeError == Ret("RangeError", <<>>, 0)
OperationResult(rp) == Ret("opresult", <<>>, rp.rowCount)
RawResult(rp) == Ret("rawresult", rp.rows, rp.rowCount)
(* as if many read one row, as single does *)
RowSet_firstRowOnly(rp) ==
  IF Len(rp.rows) = 0 THEN Ret("undefined", <<>>, 0)
  ELSE Ret("row", <<rp.rows[1]>>, 0)

RowSet(rp) == Ret("rowset", rp.rows, 0)
FirstRow(rp) ==
  IF Len(rp.rows) = 0 THEN Undefined ELSE Ret("row", <<rp.rows[1]>>, 0)

(* obj[key] of a plain object *)
HasProperty(obj, key) == \E i \in 1..Len(obj) : obj[i][1] = key
GetProperty(obj, key) ==
  IF HasProperty(obj, key)
  THEN Ret("scalar", <<>>, obj[CHOOSE i \in 1..Len(obj) : obj[i][1] = key][2])
  ELSE Undefined

(* --------------------------- the backend table ------------------------ *)
(* The table contents that the tests create: id is the primary key, title  *)
(* and body may be null.  A row of the table is the sequence of its        *)
(* <<column, value>> pairs in the order of TableColumns.                   *)
TableColumns == <<"id", "title", "body">>
Null == 0
Ids == {1, 2}

ColumnIndex(c) == CHOOSE j \in 1..Len(TableColumns) : TableColumns[j] = c
IsColumn(c) == \E j \in 1..Len(TableColumns) : TableColumns[j] = c
Cell(row, c) == row[ColumnIndex(c)][2]
IdsOf(st) == {Cell(st[i], "id") : i \in 1..Len(st)}

RECURSIVE SkipDigits(_)
SkipDigits(s) ==
  IF Len(s) > 0 /\ IsDigit(s[1]) THEN SkipDigits(Tail(s)) ELSE s

(* the text with every numbered placeholder, $ and its numeral, replaced   *)
(* by ?                                                                    *)
RECURSIVE ReplaceNumbered(_)
ReplaceNumbered(s) ==
  IF Len(s) = 0 THEN <<>>
  ELSE IF s[1] = "$" /\ Len(s) > 1 /\ IsDigit(s[2])
       THEN <<"?">> \o ReplaceNumbered(SkipDigits(Tail(s)))
       ELSE <<s[1]>> \o ReplaceNumbered(Tail(s))

(* the numbers of the numbered placeholders of s, in order of appearance *)
RECURSIVE NumbersOf(_)
NumbersOf(s) ==
  IF Len(s) = 0 THEN <<>>
  ELSE IF s[1] = "$" /\ Len(s) > 1 /\ IsDigit(s[2])
       THEN LET rest == SkipDigits(Tail(s))
            IN <<Numeral(s, 2, Len(s) - Len(rest))>> \o NumbersOf(rest)
       ELSE NumbersOf(Tail(s))

(* the value bound to each placeholder of the statement, in order of       *)
(* appearance: the k-th ? takes the k-th value, $n takes the n-th value;   *)
(* the engine rejects values that do not fit the placeholders              *)
Bindings(ad, sql, values) ==
  IF ad = "sqlite"
  THEN [ok |-> CountPositional(sql) = Len(values), vals |-> values]
  ELSE LET ns == NumbersOf(sql)
       IN IF {ns[k] : k \in 1..Len(ns)} = 1..Len(values)
          THEN [ok |-> TRUE, vals |-> [k \in 1..Len(ns) |-> values[ns[k]]]]
          ELSE [ok |-> FALSE, vals |-> <<>>]

(* keywords are read without regard to case *)
Keyword(a) ==
  IF a = "select * from " THEN "SELECT * FROM "
  ELSE IF a = " where " THEN " WHERE "
  ELSE IF a = " and " THEN " AND "
  ELSE a

StatementText(ad, sql) ==
  LET t == IF ad = "sqlite" THEN sql ELSE ReplaceNumbered(sql)
  IN [i \in 1..Len(t) |-> Keyword(t[i])]

(* pieces "column = ?" of a SET or WHERE clause *)
WellFormedPairs(pieces) ==
  /\ Len(pieces) > 0
  /\ \A k \in 1..Len(pieces) :
       /\ Len(pieces[k]) = 3
       /\ IsColumn(pieces[k][1])
       /\ pieces[k][2] = " = "
       /\ pieces[k][3] = "?"

(* row satisfies every "column = ?" of conds; the k-th of them is bound to *)
(* vals[first + k]                                                         *)
Matches(row, conds, vals, first) ==
  \A k \in 1..Len(conds) : Cell(row, conds[k][1]) = vals[first + k]

EngineFailure(st) ==
  [ok |-> FALSE, rows |-> <<>>, rowCount |-> 0, store |-> st]

EngineResult(rows, n, st) ==
  [ok |-> TRUE, rows |-> rows, rowCount |-> n, store |-> st]

(* the rows of st that satisfy keep, in the order of st *)
RECURSIVE SelectRows(_, _)
SelectRows(st, keep) ==
  IF Len(st) = 0 THEN <<>>
  ELSE (IF keep[1] THEN <<st[1]>> ELSE <<>>)
         \o SelectRows(Tail(st), Tail(keep))

(* an id that uuid_generate_v4() may give to the r-th row of an insert:    *)
(* none of the ids that callers pass, none that the table holds            *)
FreshId(st, r) ==
  LET used == IdsOf(st) \cup Ids
  IN (CHOOSE m \in used : \A u \in used : u <= m) + r

Distinct(seq) ==
  \A i \in 1..Len(seq) : \A k \in 1..Len(seq) : seq[i] = seq[k] => i = k

(* INSERT INTO t (c1, ..) VALUES (?, ..), (?, ..) *)
ExecInsert(T, B, st) ==
  LET v1 == IndexOf(T, ") VALUES (")
      v2 == IndexOf(T, ") VALUES ")
      v == IF v1 # 0 THEN v1 ELSE v2
      cols == IF v > 4 THEN SplitOn(SubSeq(T, 4, v - 1), ", ") ELSE <<>>
      groups ==
        IF v1 # 0
        THEN IF T[Len(T)] = ")" THEN <<SubSeq(T, v1 + 1, Len(T) - 1)>>
             ELSE Malformed
        ELSE IF v2 # 0 THEN GroupsOf(SubSeq(T, v2 + 1, Len(T)))
        ELSE Malformed
      n == Len(cols)
      wellFormed ==
        /\ Len(T) > 3
        /\ T[3] = " ("
        /\ n > 0
        /\ \A k \in 1..n : Len(cols[k]) = 1 /\ IsColumn(cols[k][1])
        /\ Distinct(cols)
        /\ Len(groups) > 0
        /\ \A r \in 1..Len(groups) :
             LET slots == SplitOn(groups[r], ", ")
             IN Len(slots) = n /\ \A k \in 1..n : slots[k] = <<"?">>
      value(r, c) ==
        IF \E k \in 1..n : cols[k] = <<c>>
        THEN B[(r - 1) * n + (CHOOSE k \in 1..n : cols[k] = <<c>>)]
        ELSE IF c = "id" THEN FreshId(st, r) ELSE Null
      rows ==
        [r \in 1..Len(groups) |->
           [j \in 1..Len(TableColumns) |->
              <<TableColumns[j], value(r, TableColumns[j])>>]]
      after == st \o rows
  IN IF ~wellFormed THEN EngineFailure(st)
     ELSE IF ~Distinct([i \in 1..Len(after) |-> Cell(after[i], "id")])
     THEN (* primary key *) EngineFailure(st)
     ELSE EngineResult(<<>>, Len(rows), after)

(* UPDATE t SET c = ?, .. WHERE c = ? AND .. *)
ExecUpdate(T, B, st) ==
  LET w == IndexOf(T, " WHERE ")
      sets == IF w = 0 THEN SplitOn(SubSeq(T, 4, Len(T)), ", ")
              ELSE SplitOn(SubSeq(T, 4, w - 1), ", ")
      conds == IF w = 0 THEN <<>>
               ELSE SplitOn(SubSeq(T, w + 1, Len(T)), " AND ")
      wellFormed ==
        /\ T[3] = " SET "
        /\ WellFormedPairs(sets)
        /\ w # 0 => WellFormedPairs(conds)
      hit == [i \in 1..Len(st) |-> Matches(st[i], conds, B, Len(sets))]
      value(row, c) ==
        LET named == {k \in 1..Len(sets) : sets[k][1] = c}
        IN IF named = {} THEN Cell(row, c)
           ELSE (* the last assignment of a column wins *)
                B[CHOOSE k \in named : \A m \in named : m <= k]
      after ==
        [i \in 1..Len(st) |->
           IF hit[i]
           THEN [j \in 1..Len(TableColumns) |->
                   <<TableColumns[j], value(st[i], TableColumns[j])>>]
           ELSE st[i]]
  IN IF Len(T) < 3 \/ ~wellFormed THEN EngineFailure(st)
     ELSE IF ~Distinct([i \in 1..Len(after) |-> Cell(after[i], "id")])
     THEN (* primary key *) EngineFailure(st)
     ELSE EngineResult(<<>>, Len(SelectRows(st, hit)), after)

(* SELECT * FROM t, SELECT * FROM t WHERE c = ? AND .. *)
ExecSelect(T, B, st) ==
  LET conds == IF Len(T) > 3 THEN SplitOn(SubSeq(T, 4, Len(T)), " AND ")
               ELSE <<>>
      rows == SelectRows(st, [i \in 1..Len(st) |-> Matches(st[i], conds, B, 0)])
  IN IF Len(T) = 2 THEN EngineResult(st, Len(st), st)
     ELSE IF T[3] # " WHERE " \/ ~WellFormedPairs(conds)
     THEN EngineFailure(st)
     ELSE EngineResult(rows, Len(rows), st)

StoreTables == {"contents"}

(* what the engine does with a statement and its bound values on table st *)
Execute(ad, sql, values, st) ==
  LET b == Bindings(ad, sql, values)
      T == StatementText(ad, sql)
  IN IF ~b.ok \/ Len(T) < 2 THEN EngineFailure(st)
     ELSE IF T[2] \notin StoreTables THEN EngineFailure(st)
     ELSE IF T[1] = "INSERT INTO " THEN ExecInsert(T, b.vals, st)
     ELSE IF T[1] = "UPDATE " THEN ExecUpdate(T, b.vals, st)
     ELSE IF T[1] = "SELECT * FROM " THEN ExecSelect(T, b.vals, st)
     ELSE EngineFailure(st)

(* the calls made with the table behind the driver: inserts of one row    *)
(* that name id, updates by id, and the two selects of the tests           *)
StoreKeySeqs ==
  { <<"id">>, <<"id", "title">>, <<"title", "id">>, <<"id", "title", "body">> }

StoreData(ks) ==
  { [j \in 1..Len(ks) |-> <<ks[j], f[j]>>] :
      f \in { g \in [1..Len(ks) -> Ids \cup Vals] :
                \A j \in 1..Len(ks) :
                  g[j] \in (IF ks[j] = "id" THEN Ids ELSE Vals) } }

StoreInsertInputs ==
  { [table |-> t, isArray |-> FALSE, data |-> d, rows |-> <<>>] :
      t \in StoreTables,
      d \in UNION { StoreData(ks) : ks \in StoreKeySeqs } }

UpdateKeySeqs ==
  { <<>>, <<"title">>, <<"body">>, <<"title", "body">>, <<"body", "title">>,
    <<"id">> }

StoreUpdateInputs ==
  { [table |-> t, where |-> << <<"id", x>> >>, data |-> d] :
      t \in StoreTables, x \in Ids,
      d \in UNION { StoreData(ks) : ks \in UpdateKeySeqs } }

(* select * from contents, and select * from contents where id = ${id} *)
StoreTemplates ==
  { [strings |-> << <<"select * from ", "contents">> >>, tvars |-> <<>>] }
    \cup { [strings |-> << <<"select * from ", "contents", " where ", "id", " = ">>,
                           <<>> >>,
            tvars |-> <<x>>] : x \in Ids }

(* the answers of the driver, of whatever engine *)
AnyReply ==
  [set : BOOLEAN, ok : BOOLEAN, rows : Seq(Seq(STRING \X Int)), rowCount : Nat]

(* what the driver may answer to statement q, and the table after it:     *)
(* any answer when the engine behind it is left open; with the table       *)
(* behind it, what the engine does with q, or a failure of the connection  *)
Outcomes(q) ==
  IF engine = "any" THEN {[reply |-> rp, store |-> store] : rp \in Replies}
  ELSE LET e == Execute(adapter, q.sql, q.values, store)
       IN {[reply |-> Failure, store |-> store]}
            \cup (IF e.ok
                  THEN {[reply |-> [set |-> TRUE, ok |-> TRUE, rows |-> e.rows,
                                    rowCount |-> e.rowCount],
                         store |-> e.store]}
                  ELSE {})

(* ------------------------------ operations ---------------------------- *)
(* the positions at which an operation is suspended by an await, or by the *)
(* pending promise of client.query that it returns                         *)
AwaitStates == {"await_prepare", "await_run", "await_query"}

Resume(c, q, s, rp, r, p) ==
  /\ call' = c
  /\ query' = q
  /\ sent' = s
  /\ reply' = rp
  /\ ret' = r
  /\ pc' = p
  /\ awaits' = IF p \in AwaitStates THEN awaits + 1 ELSE awaits
  /\ UNCHANGED <<adapter, depth, engine>>

(* a step of an operation that leaves the driver alone, or hands it a      *)
(* statement without having its answer                                     *)
Step(c, q, s, rp, r, p) ==
  /\ Resume(c, q, s, rp, r, p)
  /\ UNCHANGED store

(* a step in which the driver runs statement q, with outcome o *)
Run(c, q, o, r, p) ==
  /\ Resume(c, q, q, o.reply, r, p)
  /\ store' = o.store

(* a call from outside, or one handed on by a method of table(name) *)
Ready(op) == pc = "idle" \/ (pc = "delegate" /\ call.op = op)

InsertArgs ==
  IF pc = "delegate"
  THEN {[table |-> call.table, isArray |-> call.isArray,
         data |-> call.data, rows |-> call.rows]}
  ELSE IF engine = "table" THEN StoreInsertInputs
  ELSE InsertInputs

UpdateArgs == IF engine = "table" THEN StoreUpdateInputs ELSE UpdateInputs

TemplateCalls == IF engine = "table" THEN StoreTemplates ELSE TemplateInputs

WhereArgs ==
  IF pc = "delegate"
  THEN {[table |-> call.table, where |-> call.where]}
  ELSE WhereInputs

InsertCallOf(a) ==
  [NoCall EXCEPT !.op = "insert", !.via = call.via, !.table = a.table,
                 !.isArray = a.isArray, !.data = a.data, !.rows = a.rows]

WhereCallOf(op, a) ==
  [NoCall EXCEPT !.op = op, !.via = call.via, !.table = a.table,
                 !.where = a.where]

TemplateCallOf(op, a) ==
  [NoCall EXCEPT !.op = op, !.strings = a.strings, !.tvars = a.tvars]

(* resumption of an operation of the postgres adapter that waits for       *)
(* client.query: the driver resolves or rejects                            *)
pgSettle(op, result) ==
  /\ adapter = "postgres"
  /\ pc = "await_query"
  /\ call.op = op
  /\ \E o \in Outcomes(sent) : LET rp == o.reply IN
       Run(call, sent, o,
           IF rp.ok THEN result[rp] ELSE DriverError, "done")

(* ---- insert ---- *)
sqliteInsert ==
  /\ adapter = "sqlite"
  /\ Ready("insert")
  /\ \E a \in InsertArgs :
       IF a.isArray /\ Len(a.rows) = 0
       THEN (* Object.keys(data[0]) of an empty array throws *)
            Step(InsertCallOf(a), NoStmt, NoStmt, NoReply, TypeError, "done")
       ELSE LET q == Stmt(IF a.isArray THEN sqliteInsertMany(a.table, a.rows)
                                       ELSE sqliteInsertOne(a.table, a.data))
            IN \/ Step(InsertCallOf(a), q, NoStmt, NoReply, Pending, "await_prepare")
               \/ (* client.prepare(query) throws *)
                  Step(InsertCallOf(a), q, NoStmt, Failure, DriverError, "done")

(* as if statement.run were returned without a second await *)
sqliteInsertRun_notAwaited ==
  /\ adapter = "sqlite"
  /\ pc = "await_prepare"
  /\ \E o \in Outcomes(query) : LET rp == o.reply IN
       Run(call, query, o,
           IF rp.ok THEN OperationResult(rp) ELSE DriverError, "done")

sqliteInsertRun ==
  /\ adapter = "sqlite"
  /\ pc = "await_prepare"
  /\ \E o \in Outcomes(query) : LET rp == o.reply IN
       IF rp.ok
       THEN Run(call, query, o, Pending, "await_run")
       ELSE Run(call, query, o, DriverError, "done")

sqliteInsertReturn ==
  /\ adapter = "sqlite"
  /\ pc = "await_run"
  /\ call.op = "insert"
  /\ Step(call, query, sent, reply, OperationResult(reply), "done")

pgInsert ==
  /\ adapter = "postgres"
  /\ Ready("insert")
  /\ \E a \in InsertArgs :
       IF a.isArray /\ Len(a.rows) = 0
       THEN Step(InsertCallOf(a), NoStmt, NoStmt, NoReply, TypeError, "done")
       ELSE LET q == Stmt(IF a.isArray THEN pgInsertMany(a.table, a.rows)
                                       ELSE pgInsertOne(a.table, a.data))
            IN Step(InsertCallOf(a), q, q, NoReply, Pending, "await_query")

pgInsertReturn ==
  pgSettle("insert", [rp \in AnyReply |-> OperationResult(rp)])

(* ---- get, list ---- *)
sqliteGet ==
  /\ adapter = "sqlite"
  /\ Ready("get")
  /\ \E a \in WhereArgs :
       LET q == Stmt(sqliteGetStatement(a.table, a.where))
       IN \E o \in Outcomes(q) : LET rp == o.reply IN
            Run(WhereCallOf("get", a), q, o,
                 IF rp.ok THEN FirstRow(rp) ELSE DriverError, "done")

sqliteList ==
  /\ adapter = "sqlite"
  /\ Ready("list")
  /\ \E a \in WhereArgs :
       LET q == Stmt(sqliteListStatement(a.table, a.where))
       IN \E o \in Outcomes(q) : LET rp == o.reply IN
            Run(WhereCallOf("list", a), q, o,
                 IF rp.ok THEN RowSet(rp) ELSE DriverError, "done")

pgGet ==
  /\ adapter = "postgres"
  /\ Ready("get")
  /\ \E a \in WhereArgs :
       LET q == Stmt(pgGetStatement(a.table, a.where))
       IN Step(WhereCallOf("get", a), q, q, NoReply, Pending, "await_query")

pgGetReturn ==
  pgSettle("get", [rp \in AnyReply |-> RawResult(rp)])

pgList ==
  /\ adapter = "postgres"
  /\ Ready("list")
  /\ \E a \in WhereArgs :
       LET q == Stmt(pgListStatement(a.table, a.where))
       IN Step(WhereCallOf("list", a), q, q, NoReply, Pending, "await_query")

pgListReturn ==
  pgSettle("list", [rp \in AnyReply |-> RawResult(rp)])

(* ---- update ---- *)
UpdateCallOf(a) ==
  [NoCall EXCEPT !.op = "update", !.table = a.table, !.where = a.where,
                 !.data = a.data]

sqliteUpdate ==
  /\ adapter = "sqlite"
  /\ pc = "idle"
  /\ \E a \in UpdateArgs :
       LET q == Stmt(sqliteUpdateStatement(a.table, a.where, a.data))
       IN \E o \in Outcomes(q) : LET rp == o.reply IN
            IF rp.ok
            THEN Run(UpdateCallOf(a), q, o, Pending, "await_run")
            ELSE Run(UpdateCallOf(a), q, o, DriverError, "done")

sqliteUpdateReturn ==
  /\ adapter = "sqlite"
  /\ pc = "await_run"
  /\ call.op = "update"
  /\ Step(call, query, sent, reply, OperationResult(reply), "done")

pgUpdate ==
  /\ adapter = "postgres"
  /\ pc = "idle"
  /\ \E a \in UpdateArgs :
       LET q == Stmt(pgUpdateStatement(a.table, a.where, a.data))
       IN Step(UpdateCallOf(a), q, q, NoReply, Pending, "await_query")

pgUpdateReturn ==
  pgSettle("update", [rp \in AnyReply |-> OperationResult(rp)])

(* ---- pluck, single, many, execute ---- *)
sqlitePluck ==
  /\ adapter = "sqlite"
  /\ pc = "idle"
  /\ \E a \in TemplateCalls :
       LET q == Stmt(sqliteParseTemplate(a.strings, a.tvars))
       IN \E o \in Outcomes(q) : LET rp == o.reply IN
            Run(TemplateCallOf("pluck", a), q, o,
                 IF ~rp.ok THEN DriverError
                 ELSE IF Len(rp.rows) = 0 THEN Undefined
                 ELSE Ret("scalar", <<>>, rp.rows[1][1][2]),
                 "done")

sqliteSingle ==
  /\ adapter = "sqlite"
  /\ pc = "idle"
  /\ \E a \in TemplateCalls :
       LET q == Stmt(sqliteParseTemplate(a.strings, a.tvars))
       IN \E o \in Outcomes(q) : LET rp == o.reply IN
            Run(TemplateCallOf("single", a), q, o,
                 IF rp.ok THEN FirstRow(rp) ELSE DriverError, "done")

sqliteMany ==
  /\ adapter = "sqlite"
  /\ pc = "idle"
  /\ \E a \in TemplateCalls :
       LET q == Stmt(sqliteParseTemplate(a.strings, a.tvars))
       IN \E o \in Outcomes(q) : LET rp == o.reply IN
            Run(TemplateCallOf("many", a), q, o,
                 IF rp.ok THEN RowSet(rp) ELSE DriverError, "done")

sqliteExecute ==
  /\ adapter = "sqlite"
  /\ pc = "idle"
  /\ \E a \in TemplateCalls :
       LET q == Stmt(sqliteParseTemplate(a.strings, a.tvars))
       IN \E o \in Outcomes(q) : LET rp == o.reply IN
            Run(TemplateCallOf("execute", a), q, o,
                 IF rp.ok THEN RawResult(rp) ELSE DriverError, "done")

pgTemplateCall(op) ==
  /\ adapter = "postgres"
  /\ pc = "idle"
  /\ \E a \in TemplateCalls :
       LET q == Stmt(pgParseTemplate(a.strings, a.tvars))
       IN Step(TemplateCallOf(op, a), q, q, NoReply, Pending, "await_query")

pgPluck == pgTemplateCall("pluck")

(* result.rows[0][0]: reading [0] of undefined throws; a row is an object  *)
(* keyed by column name                                                    *)
pgPluckResult(rp) ==
  IF Len(rp.rows) = 0 THEN TypeError ELSE GetProperty(rp.rows[1], "0")

pgPluckReturn ==
  pgSettle("pluck", [rp \in AnyReply |-> pgPluckResult(rp)])

pgSingle == pgTemplateCall("single")
pgSingleReturn ==
  pgSettle("single", [rp \in AnyReply |-> FirstRow(rp)])

pgMany == pgTemplateCall("many")
pgManyReturn ==
  pgSettle("many", [rp \in AnyReply |-> RowSet(rp)])

pgExecute == pgTemplateCall("execute")
pgExecuteReturn ==
  pgSettle("execute", [rp \in AnyReply |-> RawResult(rp)])

(* ---- table(name) ---- *)
(* The names bound in the body of table, and in getDatabase around it. *)
TableScope == {"table", "insert", "get", "list"}
DatabaseScope ==
  {"client", "insert", "get", "list", "update", "table", "parseTemplate",
   "pluck", "single", "many", "execute"}

(* the scope whose binding an identifier in the body of table refers to *)
ResolveInTable(name) ==
  IF name \in TableScope THEN "table"
  ELSE IF name \in DatabaseScope THEN "getDatabase" ELSE "global"

(* table(name).insert(data), .get(where), .list(where): enter the arrow *)
tableMethod ==
  /\ pc = "idle"
  /\ \/ \E a \in InsertInputs :
          call' = [InsertCallOf(a) EXCEPT !.via = "table"]
     \/ \E op \in {"get", "list"} : \E a \in WhereInputs :
          call' = [WhereCallOf(op, a) EXCEPT !.via = "table"]
  /\ pc' = "bound"
  /\ depth' = 1
  /\ UNCHANGED <<adapter, query, sent, reply, ret, awaits, store, engine>>

(* the body of the arrow: a call of the identifier insert (get, list) *)
tableMethodBody ==
  /\ pc = "bound"
  /\ IF ResolveInTable(call.op) = "table"
     THEN (* the arrow itself: one more frame, or the stack is exhausted *)
          IF depth < MaxStack
          THEN /\ depth' = depth + 1
               /\ UNCHANGED <<adapter, pc, call, query, sent, reply, ret, awaits, store, engine>>
          ELSE /\ ret' = RangeError
               /\ pc' = "done"
               /\ UNCHANGED <<adapter, call, query, sent, reply, depth, awaits, store, engine>>
     ELSE (* the operation of getDatabase *)
          /\ pc' = "delegate"
          /\ UNCHANGED <<adapter, call, query, sent, reply, ret, depth, awaits, store, engine>>

(* ---------------------------- specification --------------------------- *)
Init ==
  /\ adapter \in Adapters
  /\ pc = "idle"
  /\ call = NoCall
  /\ query = NoStmt
  /\ sent = NoStmt
  /\ reply = NoReply
  /\ ret = Pending
  /\ depth = 0
  /\ awaits = 0
  /\ store = <<>>
  /\ engine = "any"

Next ==
  \/ sqliteInsert \/ sqliteInsertRun \/ sqliteInsertReturn
  \/ pgInsert \/ pgInsertReturn
  \/ sqliteGet \/ sqliteList
  \/ pgGet \/ pgGetReturn \/ pgList \/ pgListReturn
  \/ sqliteUpdate \/ sqliteUpdateReturn
  \/ pgUpdate \/ pgUpdateReturn
  \/ sqlitePluck \/ sqliteSingle \/ sqliteMany \/ sqliteExecute
  \/ pgPluck \/ pgPluckReturn \/ pgSingle \/ pgSingleReturn
  \/ pgMany \/ pgManyReturn \/ pgExecute \/ pgExecuteReturn
  \/ tableMethod \/ tableMethodBody
  \/ Discard

Spec == Init /\ [][Next]_vars

(* ------------- the adapters in front of the table contents ------------ *)
(* The table is empty after the tests' create table.                       *)
InitStore ==
  /\ adapter \in Adapters
  /\ pc = "idle"
  /\ call = NoCall
  /\ query = NoStmt
  /\ sent = NoStmt
  /\ reply = NoReply
  /\ ret = Pending
  /\ depth = 0
  /\ awaits = 0
  /\ store = <<>>
  /\ engine = "table"

NextStore ==
  \/ sqliteInsert \/ sqliteInsertRun \/ sqliteInsertReturn
  \/ pgInsert \/ pgInsertReturn
  \/ sqliteUpdate \/ sqliteUpdateReturn
  \/ pgUpdate \/ pgUpdateReturn
  \/ sqliteSingle \/ sqliteMany
  \/ pgSingle \/ pgSingleReturn \/ pgMany \/ pgManyReturn
  \/ Discard

SpecStore == InitStore /\ [][NextStore]_vars

(* ------------------ the statement builders of both dialects ----------- *)
NextDialect ==
  \/ sqliteParse \/ pgParse
  \/ sqliteInsert \/ sqliteInsertRun \/ sqliteInsertReturn
  \/ pgInsert \/ pgInsertReturn
  \/ sqliteUpdate \/ sqliteUpdateReturn
  \/ pgUpdate \/ pgUpdateReturn
  \/ Discard

SpecDialect == Init /\ [][NextDialect]_vars

(* ----------------------- reading a parsed template ------------------- *)
Parsed == pc = "done" /\ call.op = "parseTemplate"

(* ------------------------------- C1 ----------------------------------- *)
(* C1 as stated: parseTemplate returns the values V in order and an sql    *)
(* holding exactly len(V) placeholders, whatever the fragments are.        *)
C1_AsStated ==
  Parsed =>
    /\ query.values = call.tvars
    /\ PlaceholderCount(adapter, query.sql) = Len(call.tvars)

(* C1 amended: the values are V in order, and sql holds exactly len(V)     *)
(* placeholders more than the fragments themselves hold; so exactly len(V) *)
(* when no fragment holds a placeholder.                                   *)
C1_ValuesAndPlaceholders ==
  Parsed =>
    /\ query.values = call.tvars
    /\ PlaceholderCount(adapter, query.sql)
         = Len(call.tvars) + FragmentPlaceholders(adapter, call.strings)

C1_Witness ==
  /\ Parsed
  /\ Len(call.tvars) = 2
  /\ call.tvars[1] # call.tvars[2]
  /\ FragmentPlaceholders(adapter, call.strings) = 0
  /\ PlaceholderCount(adapter, query.sql) = 2

(* ------------------------------- C2 ----------------------------------- *)
(* offset in sql at which the placeholder of 0-based position i starts *)
RECURSIVE PlaceholderOffset(_, _, _)
PlaceholderOffset(ad, strings, i) ==
  IF i = 0 THEN Len(strings[1])
  ELSE PlaceholderOffset(ad, strings, i - 1)
         + PlaceholderWidth(ad, i - 1) + Len(strings[i + 1])

(* C2: sql is F[0], then for i = 0..n-1 in order the placeholder of        *)
(* position i (? in sqlite, $ and the numeral of i+1 in postgres) followed *)
(* by F[i+1], and nothing else; with n = 0, sql = F[0] and values = [].    *)
C2_TemplateLayout ==
  Parsed =>
    LET F == call.strings
        n == Len(call.tvars)
    IN /\ SubSeq(query.sql, 1, Len(F[1])) = F[1]
       /\ \A i \in 0..(n - 1) :
            LET at == PlaceholderOffset(adapter, F, i)
                w == PlaceholderWidth(adapter, i)
            IN /\ PlaceholderIsAt(adapter, query.sql, at, i)
               /\ SubSeq(query.sql, at + w + 1, at + w + Len(F[i + 2])) = F[i + 2]
       /\ Len(query.sql) = PlaceholderOffset(adapter, F, n)
       /\ n = 0 => (query.sql = F[1] /\ query.values = <<>>)

C2_Witness ==
  /\ Parsed
  /\ adapter = "postgres"
  /\ Len(call.tvars) = 2
  /\ call.strings = << <<"a">>, <<"1">>, <<"a">> >>
  /\ query.sql = <<"a", "$", "1", "1", "$", "2", "a">>

(* ------------------- reading a CRUD statement back -------------------- *)
(* slot is the placeholder of the adapter; number is its 1-based position *)
SlotIs(ad, slot, number) ==
  IF ad = "sqlite" THEN slot = <<"?">>
  ELSE /\ Len(slot) >= 2
       /\ slot[1] = "$"
       /\ \A k \in 2..Len(slot) : IsDigit(slot[k])
       /\ slot[2] # "0"
       /\ Numeral(slot, 2, Len(slot)) = number

(* part reads "key = <placeholder number>" *)
AssignIs(ad, part, key, number) ==
  /\ Len(part) >= 3
  /\ part[1] = key
  /\ part[2] = " = "
  /\ SlotIs(ad, SubSeq(part, 3, Len(part)), number)

Direct == call.via = "direct"

(* ------------------------------- C3 ----------------------------------- *)
InsertedOne == Direct /\ call.op = "insert" /\ ~call.isArray /\ sent.set

(* C3: insert of one mapping sends INSERT INTO table (keys in enumeration  *)
(* order) VALUES (one group of keys.length placeholders), bound to the     *)
(* values in the same order: column i, placeholder i and value i belong to *)
(* keys[i].                                                                *)
C3_InsertOneAligned ==
  InsertedOne =>
    LET data == call.data
        k == Len(data)
        sql == sent.sql
        mid == IndexOf(sql, ") VALUES (")
        cols == SplitOn(SubSeq(sql, 4, mid - 1), ", ")
        slots == SplitOn(SubSeq(sql, mid + 1, Len(sql) - 1), ", ")
    IN /\ Len(sql) >= 5
       /\ sql[1] = "INSERT INTO " /\ sql[2] = call.table /\ sql[3] = " ("
       /\ mid >= 4
       /\ sql[Len(sql)] = ")"
       /\ Len(cols) = k /\ Len(slots) = k /\ Len(sent.values) = k
       /\ \A i \in 1..k :
            /\ cols[i] = <<data[i][1]>>
            /\ SlotIs(adapter, slots[i], i)
            /\ sent.values[i] = data[i][2]

C3_Witness ==
  /\ InsertedOne
  /\ pc = "done"
  /\ ret.tag = "opresult"
  /\ ObjectKeys(call.data) = <<"title", "id">>
  /\ sent.values = <<1, 2>>

(* ------------------------------- C4 ----------------------------------- *)
SameKeysInOrder(rows) ==
  \A r \in 1..Len(rows) : ObjectKeys(rows[r]) = ObjectKeys(rows[1])

InsertedMany ==
  /\ Direct /\ call.op = "insert" /\ call.isArray /\ sent.set
  /\ Len(call.rows) > 0
  /\ SameKeysInOrder(call.rows)

(* C4: insert of a non-empty array of rows with the same k keys in the     *)
(* same order sends rows.length groups of k placeholders, bound to the     *)
(* rows' values row after row; slot j of row r is ? in sqlite and the      *)
(* number r*k + j (r 0-based, j 1-based) in postgres, so 1 .. rows*k.      *)
C4_InsertManyGroups ==
  InsertedMany =>
    LET rows == call.rows
        n == Len(rows)
        k == Len(rows[1])
        sql == sent.sql
        mid == IndexOf(sql, ") VALUES ")
        cols == SplitOn(SubSeq(sql, 4, mid - 1), ", ")
        groups == GroupsOf(SubSeq(sql, mid + 1, Len(sql)))
    IN /\ sql[1] = "INSERT INTO " /\ sql[2] = call.table /\ sql[3] = " ("
       /\ mid >= 4
       /\ Len(cols) = k
       /\ \A j \in 1..k : cols[j] = <<rows[1][j][1]>>
       /\ Len(groups) = n
       /\ Len(sent.values) = n * k
       /\ \A r \in 1..n :
            LET slots == SplitOn(groups[r], ", ")
            IN /\ Len(slots) = k
               /\ \A j \in 1..k :
                    /\ SlotIs(adapter, slots[j], (r - 1) * k + j)
                    /\ sent.values[(r - 1) * k + j] = rows[r][j][2]

C4_Witness ==
  /\ InsertedMany
  /\ adapter = "postgres"
  /\ Len(call.rows) = 5
  /\ Len(call.rows[1]) = 2
  /\ SubSeq(sent.sql, Len(sent.sql) - 3, Len(sent.sql)) = <<"$", "1", "0", ")">>

(* ------------------------------- C5 ----------------------------------- *)
Updated == call.op = "update" /\ sent.set

(* C5: update sends UPDATE table SET keys(data) WHERE keys(where), bound   *)
(* to values(data) followed by values(where); in postgres the data         *)
(* placeholders are 1..|data| and the where placeholders continue with     *)
(* |data|+1 .. |data|+|where|.                                             *)
C5_UpdateOrder ==
  Updated =>
    LET data == call.data
        where == call.where
        sql == sent.sql
        w == IndexOf(sql, " WHERE ")
        sets == SplitOn(SubSeq(sql, 4, w - 1), ", ")
        conds == SplitOn(SubSeq(sql, w + 1, Len(sql)), " AND ")
    IN /\ sql[1] = "UPDATE " /\ sql[2] = call.table /\ sql[3] = " SET "
       /\ w >= 4
       /\ Len(sets) = Len(data)
       /\ Len(conds) = Len(where)
       /\ \A j \in 1..Len(data) : AssignIs(adapter, sets[j], data[j][1], j)
       /\ \A j \in 1..Len(where) :
            AssignIs(adapter, conds[j], where[j][1], Len(data) + j)
       /\ Len(sent.values) = Len(data) + Len(where)
       /\ \A j \in 1..Len(data) : sent.values[j] = data[j][2]
       /\ \A j \in 1..Len(where) : sent.values[Len(data) + j] = where[j][2]

C5_Witness ==
  /\ Updated
  /\ adapter = "postgres"
  /\ pc = "done"
  /\ ret.tag = "opresult"
  /\ call.data = << <<"title", 2>>, <<"id", 1>> >>
  /\ call.where = << <<"id", 1>>, <<"title", 1>> >>
  /\ sent.values = <<2, 1, 1, 1>>

(* ------------------------------- C6 ----------------------------------- *)
Selected == Direct /\ call.op \in {"get", "list"} /\ sent.set

(* the statement reads: select table where k1 = p1 and k2 = p2 .., with   *)
(* the given keyword texts, over the keys of where in order, bound to its *)
(* values in order                                                        *)
SelectReads(kwSelect, kwWhere, kwAnd) ==
  LET where == call.where
      sql == sent.sql
      conds == SplitOn(SubSeq(sql, 4, Len(sql)), kwAnd)
  IN /\ Len(sql) >= 3
     /\ sql[1] = kwSelect /\ sql[2] = call.table /\ sql[3] = kwWhere
     /\ Len(conds) = Len(where)
     /\ \A j \in 1..Len(where) : AssignIs(adapter, conds[j], where[j][1], j)
     /\ sent.values = [j \in 1..Len(where) |-> where[j][2]]

(* C6 as stated: get and list of both adapters build                       *)
(* SELECT * FROM table WHERE k1 = ? AND k2 = ? .. (or numbered), joined    *)
(* with AND, bound to values(where) in order.                              *)
C6_AsStated ==
  Selected => SelectReads("SELECT * FROM ", " WHERE ", " AND ")

(* C6 amended: the postgres adapter builds that text; the sqlite adapter   *)
(* builds the same statement with its keywords in lower case, select *     *)
(* from table where k1 = ? and k2 = ? .., joined with and.  In both the    *)
(* keys are in enumeration order and the values are values(where) in the   *)
(* same order, so the text and the values are a function of (table, where).*)
C6_SelectText ==
  Selected =>
    IF adapter = "postgres"
    THEN SelectReads("SELECT * FROM ", " WHERE ", " AND ")
    ELSE SelectReads("select * from ", " where ", " and ")

C6_Witness ==
  /\ Selected
  /\ adapter = "sqlite"
  /\ pc = "done"
  /\ call.op = "list"
  /\ call.where = << <<"title", 1>>, <<"id", 2>> >>
  /\ sent.sql = <<"select * from ", "contents", " where ",
                  "title", " = ", "?", " and ", "id", " = ", "?">>

(* ------------------------------- C7 ----------------------------------- *)
(* C7: get returns the first matching row or absence, list returns the     *)
(* sequence of all matching rows; neither returns the driver's result      *)
(* object.                                                                 *)
C7_AsStated ==
  (pc = "done" /\ Direct /\ call.op \in {"get", "list"} /\ reply.ok) =>
    /\ ret.tag # "rawresult"
    /\ call.op = "get" => ret = FirstRow(reply)
    /\ call.op = "list" => ret = RowSet(reply)

(* ------------------------------- C8 ----------------------------------- *)
(* C8: pluck returns the first column of the first returned row, and       *)
(* absence, without failing, when the query returns no rows.               *)
C8_AsStated ==
  (pc = "done" /\ call.op = "pluck" /\ reply.ok) =>
    IF Len(reply.rows) = 0
    THEN ret = Undefined
    ELSE ret = Ret("scalar", <<>>, reply.rows[1][1][2])

(* ------------------------------- C9 ----------------------------------- *)
SameKeySet(rows) ==
  \A r \in 1..Len(rows) :
    {rows[r][j][1] : j \in 1..Len(rows[r])}
      = {rows[1][j][1] : j \in 1..Len(rows[1])}

(* columns, placeholders and bound values of a sent multi-row insert *)
ColumnCount(sql) ==
  Len(SplitOn(SubSeq(sql, 4, IndexOf(sql, ") VALUES ") - 1), ", "))

(* C9: an insert of an empty array, or of rows whose key sets differ, is   *)
(* rejected before any statement reaches the driver; no insert statement   *)
(* is sent whose columns, placeholders and bound values disagree.          *)
C9_AsStated ==
  (call.op = "insert" /\ call.isArray) =>
    /\ (Len(call.rows) = 0 \/ ~SameKeySet(call.rows)) => ~sent.set
    /\ sent.set =>
         /\ PlaceholderCount(adapter, sent.sql) = Len(sent.values)
         /\ PlaceholderCount(adapter, sent.sql)
              = ColumnCount(sent.sql) * Len(call.rows)

(* ------------------------------- C10 ---------------------------------- *)
(* the statement the operation of the same name builds for the same table *)
(* and argument                                                           *)
DirectStatement ==
  IF call.op = "insert"
  THEN IF call.isArray
       THEN IF adapter = "sqlite" THEN sqliteInsertMany(call.table, call.rows)
            ELSE pgInsertMany(call.table, call.rows)
       ELSE IF adapter = "sqlite" THEN sqliteInsertOne(call.table, call.data)
            ELSE pgInsertOne(call.table, call.data)
  ELSE IF adapter = "sqlite" THEN sqliteSelect(call.table, call.where)
       ELSE pgSelect(call.table, call.where)

(* C10: a method of table(name) terminates, and sends the statement and    *)
(* bound values of the operation of the same name called with name.        *)
C10_AsStated ==
  (pc = "done" /\ call.via = "table") =>
    /\ ret.tag # "RangeError"
    /\ ~(call.op = "insert" /\ call.isArray /\ Len(call.rows) = 0)
         => sent = Stmt(DirectStatement)

(* ------------------------------- C11 ---------------------------------- *)
(* the value mapping m gives to key c *)
ValueOf(m, c) == m[CHOOSE j \in 1..Len(m) : m[j][1] = c][2]

(* row agrees with every pair of the mapping where *)
Satisfies(row, where) ==
  \A j \in 1..Len(where) : Cell(row, where[j][1]) = where[j][2]

(* the driver has run the statement of an update in this step, and        *)
(* answered without failure                                                *)
UpdateRan == ~reply.set /\ reply'.set /\ reply'.ok /\ call'.op = "update"

(* what update(table, where, data) is to do to the table: the answer       *)
(* counts the rows that satisfy where; in those the columns that data      *)
(* names take its values and the others stay; every other row stays        *)
UpdateFrame ==
  LET where == call'.where
      data == call'.data
      hit == {i \in 1..Len(store) : Satisfies(store[i], where)}
  IN /\ reply'.rowCount = Cardinality(hit)
     /\ Len(store') = Len(store)
     /\ \A i \in 1..Len(store) :
          IF i \in hit
          THEN \A j \in 1..Len(TableColumns) :
                 LET c == TableColumns[j]
                 IN Cell(store'[i], c) =
                      IF HasProperty(data, c) THEN ValueOf(data, c)
                      ELSE Cell(store[i], c)
          ELSE store'[i] = store[i]
     /\ (Cardinality(hit) = 1 /\ ~HasProperty(data, "id"))
          => IdsOf(store') = IdsOf(store)

FetchedById ==
  /\ pc = "done"
  /\ call.op = "single"
  /\ reply.ok
  /\ Len(call.tvars) = 1

(* the row of the table whose id is x, absence when there is none *)
RowOfId(st, x) ==
  IF x \in IdsOf(st)
  THEN Ret("row", <<st[CHOOSE i \in 1..Len(st) : Cell(st[i], "id") = x]>>, 0)
  ELSE Undefined

ManyDone == pc = "done" /\ call.op = "many"

(* the rows of the table that a select of the tests is to return: all of   *)
(* them, or those with the id interpolated                                 *)
RowsAsked(st, tvars) ==
  IF Len(tvars) = 0 THEN st
  ELSE SelectRows(st, [i \in 1..Len(st) |-> Cell(st[i], "id") = tvars[1]])

(* C12: many hands the driver the parsed template and its values; a        *)
(* template without interpolations is sent as its one fragment with an     *)
(* empty value list, and the engine accepts it; unless the driver fails,   *)
(* many returns the sequence of all the rows selected, which on a table    *)
(* without rows is the empty sequence, not absence.                        *)
C12_ManyRowSet ==
  ManyDone =>
    /\ sent.set
    /\ sent.values = call.tvars
    /\ Len(call.tvars) = 0
         => /\ sent.sql = call.strings[1]
            /\ sent.values = <<>>
            /\ Execute(adapter, sent.sql, sent.values, store).ok
    /\ reply.ok => ret = Ret("rowset", RowsAsked(store, call.tvars), 0)
    /\ (reply.ok /\ store = <<>>) => ret = Ret("rowset", <<>>, 0)
    /\ ~reply.ok => ret = DriverError

C12_Witness ==
  /\ ManyDone
  /\ Len(call.tvars) = 0
  /\ call.strings = << <<"select * from ", "contents">> >>
  /\ store = <<>>
  /\ reply.ok
  /\ ret = Ret("rowset", <<>>, 0)

(* ------------------------------- C13 ---------------------------------- *)
SyncOps == {"get", "list", "pluck", "single", "many", "execute"}

(* the driver was reached: it answered, it holds the statement, or it has  *)
(* prepared the statement of an insert                                     *)
ReachedDriver == reply.set \/ sent.set \/ pc = "await_prepare"

Built == query.set /\ call.op \in {"insert", "update", "parseTemplate"}

(* what the builder of each adapter makes of the inputs of the call *)
sqliteStatement ==
  IF call.op = "insert"
  THEN IF call.isArray THEN sqliteInsertMany(call.table, call.rows)
       ELSE sqliteInsertOne(call.table, call.data)
  ELSE IF call.op = "update"
  THEN sqliteUpdateStatement(call.table, call.where, call.data)
  ELSE sqliteParseTemplate(call.strings, call.tvars)

pgStatement ==
  IF call.op = "insert"
  THEN IF call.isArray THEN pgInsertMany(call.table, call.rows)
       ELSE pgInsertOne(call.table, call.data)
  ELSE IF call.op = "update"
  THEN pgUpdateStatement(call.table, call.where, call.data)
  ELSE pgParseTemplate(call.strings, call.tvars)

PlainFragments(strings) ==
  /\ \A j \in 1..Len(strings) : CountNumbered(strings[j]) = 0
  /\ \A j \in 2..Len(strings) :
       Len(strings[j]) > 0 => ~IsDigit(strings[j][1])

====
